---- MODULE Spec2Model ----
(***************************************************************************)
(* The resumable batch-scoring pipeline of AIBot/scripts/kick_off_ranker.py *)
(* (main, rank_papers, load_existing_report, save_report) driving the      *)
(* retry loop of AIBot/scripts/gemini_client.py (rank_paper), with the     *)
(* checkpoint file as persistent state.                                    *)
(*                                                                         *)
(* A Python dict is a function from its keys (strings) to values, so a     *)
(* missing key is a key outside DOMAIN.  The timestamp generated_at and    *)
(* the text fields of a paper (title, abstract, ...) take no part in any   *)
(* decision of the pipeline and are left out of the documents.             *)
(***************************************************************************)
EXTENDS Integers, Sequences, FiniteSets, TLC

\* ------------------------------------------------------------- bounds
NPapers == 2
MaxRuns == 2
\* entries of a checkpoint left by an earlier lineage (SpecPooled)
MaxLoaded == 4
\* papers of a report read by generate_notebooklm_list, and the largest
\* max_count drawn (SpecSelect)
MaxListed == 3
MaxCount == 2

\* ---------------------------------------------------------- constants
\* GeminiRankingClient.__init__(max_retries=3): main() builds the client
\* without passing max_retries.
DefaultMaxRetries == 3
\* "limit: Optional[int] = None": the absent limit, outside the limits drawn.
None == -1

Keys == 1..NPapers
\* parse_kick_off_bibtex returns a dict in file order: an input is a sequence
\* of distinct keys.  The inputs drawn are the whole bibliography, the
\* bibliography without its last record, and the empty one.
AllKeys == [i \in 1..NPapers |-> i]
Inputs == {SubSeq(AllKeys, 1, n) : n \in {0, NPapers - 1, NPapers}}
\* --limit: absent, 0, or 1 (below, equal to or above the number of records
\* that remain, according to the input and the checkpoint).
Limits == {None, 0, 1}

\* What one backend call does: "raise" (the API call, the parse or the
\* final_score check raises), "num" (a valid ranking is returned), "nonnum" (a
\* ranking whose final_score is not a number, a JSON string: rank_paper accepts
\* it, since it only tests that the key is there).
Outcomes == {"raise", "num", "nonnum"}

VARIABLES
    oracle,       \* the backend, per key: "any" (each call may do any of
                  \* Outcomes) or the one outcome of every call for the key
    file,         \* the checkpoint file at output_path
    file0,        \* the file as it was when the current run started
    pc,           \* where the process is
    phase,        \* which write is in progress: success, failure, final, save
    papers,       \* rank_papers: the input, bibtex keys in source order
    resume,       \* rank_papers: resume
    limit,        \* rank_papers: limit
    paper_items,  \* rank_papers: the records this run processes
    idx,          \* rank_papers: position in paper_items (from 1)
    attempt,      \* rank_paper: the retry loop's counter
    results,      \* rank_papers: results (report["papers"] is the same list)
    failed,       \* rank_papers: failed
    report,       \* rank_papers / save_report: the report dict
    runs,         \* runs started so far
    called,       \* the keys the backend was invoked for in the current run
    before,       \* the keys the backend was invoked for in earlier runs
    ncalls,       \* backend invocations for the current record
    outcome,      \* how rank_paper ended for the current record
    mark,         \* failed and len(results) when the current record began
    rerun,        \* the run resumes, on the same input, after a run that
                  \* went to completion (main returned)
    response_text, \* rank_paper: what the last API call gave (SpecClient)
    parsed,       \* rank_paper: what _parse_response made of it (SpecClient)
    eprint_map,   \* select_papers_with_eprint: bibtex_key -> eprint (SpecSelect)
    max_count,    \* select_papers_with_eprint: max_count (SpecSelect)
    selected,     \* select_papers_with_eprint: its return value (SpecSelect)
    sleeps,       \* rank_paper: the wait_time of each time.sleep, in order
    inst          \* two processes on one checkpoint: the state of each (SpecTwo)

vars == <<oracle, file, file0, pc, phase, papers, resume, limit, paper_items,
          idx, attempt, results, failed, report, runs, called, before, ncalls,
          outcome, mark, rerun, response_text, parsed, eprint_map, max_count,
          selected, sleeps, inst>>

\* the state of generate_notebooklm_list.py
notebooklm == <<eprint_map, max_count, selected>>

\* ------------------------------------------------------------ values
Min(a, b) == IF a <= b THEN a ELSE b

\* A JSON value of a score: a number, or something else (a string).
Num(n) == [type |-> "number", val |-> n]
NotANumber == [type |-> "string", val |-> 0]
IsNum(v) == v.type = "number"

\* The rubric's categories in weight order (save_report's docstring).
Categories == <<"direct_lrd_connection", "citation_frequency",
                "foundational_value", "methodological_innovation",
                "evolutionary_context">>

\* The backend's answer for a record.  Record 1 scores 5; the others tie at 8
\* and differ in the first category; even records carry no other category.
FinalScoreOf(k) == IF k = 1 THEN 5 ELSE 8
CategoryScoresOf(k) ==
    IF k % 2 = 0
    THEN [c \in {"direct_lrd_connection"} |-> [score |-> 10 - k]]
    ELSE [c \in {Categories[i] : i \in 1..5} |->
            [score |-> IF c = "direct_lrd_connection" THEN 10 - k ELSE 6]]

\* rank_paper's return value on success.
Ranking(k, o) ==
    [final_score |-> IF o = "nonnum" THEN NotANumber ELSE Num(FinalScoreOf(k)),
     category_scores |-> CategoryScoresOf(k)]

\* rank_papers lines 225-232: result = {**paper_info, "relevance_score": ...}.
Result(k, ranking) ==
    [bibtex_key |-> k,
     relevance_score |-> ranking.final_score,
     category_scores |-> ranking.category_scores]

\* dict update d[k] = v
DictSet(d, k, v) == (k :> v) @@ d
\* d.get(k, default)
DictGet(d, k, default) == IF k \in DOMAIN d THEN d[k] ELSE default

KeysOf(seq) == {seq[i].bibtex_key : i \in 1..Len(seq)}
AllNumeric(seq) == \A i \in 1..Len(seq) : IsNum(seq[i].relevance_score)

\* ------------------------------------------------- statistics and sort
RECURSIVE SumSeq(_)
SumSeq(s) == IF Len(s) = 0 THEN 0 ELSE Head(s) + SumSeq(Tail(s))

\* sorted(xs), ascending, of numbers
RECURSIVE SortAsc(_)
SortAsc(s) ==
    IF Len(s) = 0 THEN <<>>
    ELSE LET rest == SortAsc(Tail(s))
             n == Cardinality({i \in 1..Len(rest) : rest[i] <= Head(s)})
         IN SubSeq(rest, 1, n) \o <<Head(s)>> \o SubSeq(rest, n + 1, Len(rest))

\* A median that averages the two middle values of an even number of scores.
MedianAveraged(vals) ==
    LET sorted == SortAsc(vals)
        h == Len(vals) \div 2
    IN IF Len(vals) % 2 = 0 THEN (sorted[h] + sorted[h + 1]) \div 2
       ELSE sorted[h + 1]

\* sorted(...)[len(results) // 2]: zero-based index len // 2
MedianOf(vals) == SortAsc(vals)[(Len(vals) \div 2) + 1]

\* rank_papers lines 243-250, save_report lines 344-351: the statistics dict of
\* a non-empty list of numeric scores.  average_score is the quotient
\* sum / len, kept as the pair <<sum, len>>.
StatisticsOf(rs) ==
    LET vals == [i \in 1..Len(rs) |-> rs[i].relevance_score.val]
    IN [average_score |-> <<SumSeq(vals), Len(vals)>>,
        median_score |-> MedianOf(vals),
        critical_count |->
            Cardinality({i \in 1..Len(vals) : vals[i] >= 8}),
        high_value_count |->
            Cardinality({i \in 1..Len(vals) : 6 <= vals[i] /\ vals[i] < 8}),
        moderate_value_count |->
            Cardinality({i \in 1..Len(vals) : 4 <= vals[i] /\ vals[i] < 6}),
        low_priority_count |->
            Cardinality({i \in 1..Len(vals) : vals[i] < 4})]

\* get_category_score: paper.get("category_scores", {}).get(name, {}).get("score", 0.0)
get_category_score(paper, category_name) ==
    DictGet(DictGet(DictGet(paper, "category_scores", <<>>),
                    category_name, <<>>), "score", 0)

\* A sort key of the score alone.
SortKeyScoreOnly(p) == <<0 - p.relevance_score.val>>

\* save_report's sort key: the negated score, then the negated category scores.
SortKey(p) ==
    <<0 - p.relevance_score.val>> \o
    [i \in 1..5 |-> 0 - get_category_score(p, Categories[i])]

\* tuple comparison a < b
LexLess(a, b) ==
    \E i \in 1..Len(a) : a[i] < b[i] /\ \A j \in 1..(i - 1) : a[j] = b[j]

\* A sort that puts an element before those already placed with its key.
RECURSIVE SortedByKeyUnstable(_)
SortedByKeyUnstable(rs) ==
    IF Len(rs) = 0 THEN <<>>
    ELSE LET front == SortedByKeyUnstable(SubSeq(rs, 1, Len(rs) - 1))
             p == rs[Len(rs)]
             n == Cardinality({i \in 1..Len(front) :
                                 LexLess(SortKey(front[i]), SortKey(p))})
         IN SubSeq(front, 1, n) \o <<p>> \o SubSeq(front, n + 1, Len(front))

\* sorted(results, key=...): stable, so an element goes after every element
\* already placed whose key is not greater than its own.
RECURSIVE SortedByKey(_)
SortedByKey(rs) ==
    IF Len(rs) = 0 THEN <<>>
    ELSE LET front == SortedByKey(SubSeq(rs, 1, Len(rs) - 1))
             p == rs[Len(rs)]
             n == Cardinality({i \in 1..Len(front) :
                                 ~LexLess(SortKey(p), SortKey(front[i]))})
         IN SubSeq(front, 1, n) \o <<p>> \o SubSeq(front, n + 1, Len(front))

\* ------------------------------------------------- the backend's response
\* What one API call gives: an exception (error: "transient", e.g. a timeout
\* or a rate limit, or "permanent", e.g. invalid credentials), or a response
\* text, known by what each parsing strategy finds in it:
\*   direct   json.loads(text) succeeds ("ok") or raises ("bad")
\*   labeled  the block after "```json": absent, "ok" or "bad"
\*   fenced   the block after the first "```": absent, "ok" or "bad"
\*   braces   the text from the first "{" to the last "}": absent, "ok", "bad"
\*   object   the parsed value is a JSON object (a dict), not an array or a
\*            string
\*   final_score  "final_score" in result: the parsed object has the key, or
\*            the parsed array or string contains "final_score"
NoResponse ==
    [error |-> "none", direct |-> "bad", labeled |-> "none", fenced |-> "none",
     braces |-> "none", object |-> TRUE, final_score |-> FALSE]
ApiErrors ==
    {[NoResponse EXCEPT !.error = e] : e \in {"transient", "permanent"}}
\* A text with "```json" has "```"; a text of which some part parses to an
\* object has braces.
ResponseTexts ==
    {t \in [error : {"none"}, direct : {"ok", "bad"},
            labeled : {"none", "ok", "bad"}, fenced : {"none", "ok", "bad"},
            braces : {"none", "ok", "bad"}, object : BOOLEAN,
            final_score : BOOLEAN] :
        /\ t.labeled # "none" => t.fenced # "none"
        /\ ("ok" \in {t.direct, t.labeled, t.fenced}) => t.braces # "none"}

\* _parse_response: the strategy whose json.loads gave the result, or the
\* exception that leaves the method.  The strategies after the direct parse
\* are the arms of one if / elif / else inside the except block: the first
\* arm whose marker is in the text is the only one run, and a JSONDecodeError
\* of its json.loads leaves the method; line 183 is reached only when no arm
\* returned or raised.
_parse_response(t) ==
    IF t.direct = "ok" THEN "direct"
    ELSE IF t.labeled # "none"
         THEN (IF t.labeled = "ok" THEN "json_fence" ELSE "JSONDecodeError")
    ELSE IF t.fenced # "none"
         THEN (IF t.fenced = "ok" THEN "any_fence" ELSE "JSONDecodeError")
    ELSE IF t.braces = "none" THEN "GeminiRankingError"
    ELSE IF t.braces = "ok" THEN "braces" ELSE "JSONDecodeError"

\* ------------------------------------------------------ the checkpoint
NoReport == [x \in {} |-> 0]
\* Two processes started on the same output path (SpecTwo), and the state of
\* one that has not begun: the locals of rank_papers, the keys it got a
\* ranking for (scored) and those of them it has written (persisted).
Instances == {"A", "B"}
IdleInstance ==
    [pc |-> "idle", phase |-> "none", paper_items |-> <<>>, idx |-> 0,
     results |-> <<>>, failed |-> 0, report |-> NoReport, scored |-> {},
     persisted |-> {}]
Truthy(d) == DOMAIN d # {}
Absent == [state |-> "absent", doc |-> NoReport]
Torn == [state |-> "torn", doc |-> NoReport]
Stored(doc) == [state |-> "report", doc |-> doc]

\* A loader that makes a report with a failure count of a file it cannot
\* read.
load_existing_report_salvaged(f) ==
    IF f.state = "report" THEN f.doc ELSE [failed |-> 1]

\* A loader that finds no checkpoint whatever the file holds.
load_existing_report_none(f) == NoReport

\* load_existing_report: the parsed document, or None when the file does not
\* exist or json.load raises.
load_existing_report(f) == IF f.state = "report" THEN f.doc ELSE NoReport

\* rank_papers lines 165-169: existing_papers[paper["bibtex_key"]] = paper, a
\* dict in insertion order: a repeated key keeps its first place and takes the
\* last value.
RECURSIVE ExistingPapers(_)
ExistingPapers(ps) ==
    IF Len(ps) = 0 THEN <<>>
    ELSE LET front == ExistingPapers(SubSeq(ps, 1, Len(ps) - 1))
             p == ps[Len(ps)]
         IN IF p.bibtex_key \in KeysOf(front)
            THEN [i \in 1..Len(front) |->
                    IF front[i].bibtex_key = p.bibtex_key THEN p ELSE front[i]]
            ELSE Append(front, p)

\* A filter that skips nothing.
RemainingNoSkip(ps, existing_keys, res) == ps

\* A filter with the membership test inverted.
RemainingInverted(ps, existing_keys, res) ==
    SelectSeq(ps, LAMBDA k : k \in existing_keys /\ res)

\* A filter that hands the records over last first.
RemainingReversed(ps, existing_keys, res) ==
    LET kept == SelectSeq(ps, LAMBDA k : ~(k \in existing_keys /\ res))
    IN [i \in 1..Len(kept) |-> kept[Len(kept) + 1 - i]]

\* rank_papers lines 173-179: the records not skipped, in source order.
Remaining(ps, existing_keys, res) ==
    SelectSeq(ps, LAMBDA k : ~(k \in existing_keys /\ res))

\* rank_papers lines 185-186: "if limit: paper_items = paper_items[:limit]".
ApplyLimit(items, lim) ==
    IF lim # None /\ lim # 0 THEN SubSeq(items, 1, Min(lim, Len(items)))
    ELSE items

\* rank_papers lines 202-209.
InitialReport(ps, rs, f) ==
    [total_papers |-> Len(ps),
     successfully_scored |-> Len(rs),
     failed |-> f,
     papers |-> rs,
     status |-> "in_progress"]

\* A final report that carries the pipeline's counters and status along.
SaveReportKeepingStatus(rs) ==
    [total_papers |-> Len(rs),
     successfully_scored |-> Len(rs),
     failed |-> 0,
     status |-> "completed",
     papers |-> rs,
     statistics |-> StatisticsOf(rs)]

\* save_report lines 339-352 (results is not empty when main calls it).
SaveReport(rs) ==
    [total_papers |-> Len(rs),
     successfully_scored |-> Len(rs),
     papers |-> SortedByKey(rs),
     statistics |-> StatisticsOf(rs)]

\* An append that leaves the success counter as it was.
AfterAppendStaleCount(rep, rs, f) ==
    [rep EXCEPT !["papers"] = rs, !["failed"] = f]

\* rank_papers lines 234-239: the report once the result is appended.
\* report["papers"] is the list results itself (line 207), so the append shows
\* in the report at once; lines 237-239 then refresh the counters.
AfterAppend(rep, rs, f) ==
    [rep EXCEPT !["papers"] = rs,
                !["successfully_scored"] = Len(rs),
                !["failed"] = f]

\* ------------------------------------------------------------- actions
\* No process has run yet.
InitProcess ==
    /\ file0 = Absent
    /\ pc = "idle"
    /\ phase = "none"
    /\ papers = <<>>
    /\ resume = TRUE
    /\ limit = None
    /\ paper_items = <<>>
    /\ idx = 0
    /\ attempt = 0
    /\ results = <<>>
    /\ failed = 0
    /\ report = NoReport
    /\ runs = 0
    /\ called = {}
    /\ before = {}
    /\ ncalls = 0
    /\ outcome = "none"
    /\ mark = [failed |-> 0, n |-> 0]
    /\ rerun = FALSE
    /\ response_text = NoResponse
    /\ parsed = "none"
    /\ eprint_map = <<>>
    /\ max_count = 0
    /\ sleeps = <<>>
    /\ inst = [i \in Instances |-> IdleInstance]
    /\ selected = [selected |-> <<>>, skipped_high_quality |-> <<>>]

\* Before the first run: no checkpoint file, no process.
InitProgram ==
    /\ file = Absent
    /\ InitProcess

\* Any backend: every call may raise or answer.
Init ==
    /\ oracle = [k \in Keys |-> "any"]
    /\ InitProgram

\* The process is not running: never started, ended, or killed.
Stopped == pc \in {"idle", "done", "exit1", "killed"}

\* A start that loads the checkpoint whether resume is on or off.
StartRunAlwaysLoads(inp, res, lim) ==
    /\ Stopped
    /\ runs < MaxRuns
    /\ LET existing_report == load_existing_report(file)
           existing_papers ==
               IF Truthy(existing_report) /\ "papers" \in DOMAIN existing_report
               THEN ExistingPapers(existing_report["papers"])
               ELSE <<>>
           items == ApplyLimit(Remaining(inp, KeysOf(existing_papers), res), lim)
           f == IF Truthy(existing_report)
                THEN DictGet(existing_report, "failed", 0) ELSE 0
       IN /\ paper_items' = items
          /\ results' = existing_papers
          /\ IF Len(items) = 0
             THEN /\ pc' = "returned"
                  /\ failed' = 0
                  /\ report' = NoReport
                  /\ mark' = [failed |-> 0, n |-> Len(existing_papers)]
             ELSE /\ pc' = "loop"
                  /\ failed' = f
                  /\ report' = InitialReport(inp, existing_papers, f)
                  /\ mark' = [failed |-> f, n |-> Len(existing_papers)]
    /\ papers' = inp
    /\ resume' = res
    /\ limit' = lim
    /\ idx' = 1
    /\ attempt' = 0
    /\ phase' = "none"
    /\ runs' = runs + 1
    /\ called' = {}
    /\ before' = before \cup called
    /\ ncalls' = 0
    /\ outcome' = "none"
    /\ rerun' = (pc = "done" /\ res /\ inp = papers)
    /\ file0' = file
    /\ UNCHANGED <<oracle, file>>
    /\ UNCHANGED <<response_text, parsed>>
    /\ UNCHANGED <<notebooklm, sleeps, inst>>

\* main lines 494-504 and rank_papers lines 163-212: a run starts on an input,
\* loads the checkpoint, selects the records to process and either returns at
\* once (nothing to process) or sets up results, failed and report.
StartRun(inp, res, lim) ==
    /\ Stopped
    /\ runs < MaxRuns
    /\ LET existing_report == IF res THEN load_existing_report(file)
                              ELSE NoReport
           existing_papers ==
               IF Truthy(existing_report) /\ "papers" \in DOMAIN existing_report
               THEN ExistingPapers(existing_report["papers"])
               ELSE <<>>
           items == ApplyLimit(Remaining(inp, KeysOf(existing_papers), res), lim)
           f == IF Truthy(existing_report)
                THEN DictGet(existing_report, "failed", 0) ELSE 0
       IN /\ paper_items' = items
          /\ results' = existing_papers
          /\ IF Len(items) = 0
             THEN /\ pc' = "returned"
                  /\ failed' = 0
                  /\ report' = NoReport
                  /\ mark' = [failed |-> 0, n |-> Len(existing_papers)]
             ELSE /\ pc' = "loop"
                  /\ failed' = f
                  /\ report' = InitialReport(inp, existing_papers, f)
                  /\ mark' = [failed |-> f, n |-> Len(existing_papers)]
    /\ papers' = inp
    /\ resume' = res
    /\ limit' = lim
    /\ idx' = 1
    /\ attempt' = 0
    /\ phase' = "none"
    /\ runs' = runs + 1
    /\ called' = {}
    /\ before' = before \cup called
    /\ ncalls' = 0
    /\ outcome' = "none"
    /\ rerun' = (pc = "done" /\ res /\ inp = papers)
    /\ file0' = file
    /\ UNCHANGED <<oracle, file>>
    /\ UNCHANGED <<response_text, parsed>>
    /\ UNCHANGED <<notebooklm, sleeps, inst>>

InLoop == pc \in {"loop", "rank"} /\ idx <= Len(paper_items)

\* The process ends (sys.exit, or main returns): its memory is gone.
Exit(status) ==
    /\ pc' = status
    /\ idx' = 0
    /\ attempt' = 0
    /\ results' = <<>>
    /\ failed' = 0
    /\ report' = NoReport
    /\ ncalls' = 0
    /\ mark' = [failed |-> 0, n |-> 0]

\* A configuration error that shows only once records are being processed.
ConfigErrorMidBatch ==
    /\ pc \in {"loop", "rank"}
    /\ Exit("exit1")
    /\ phase' = "config"
    /\ UNCHANGED <<oracle, file, file0, papers, resume, limit, paper_items,
                   runs, called, before, outcome, rerun, response_text, parsed>>
    /\ UNCHANGED <<notebooklm, sleeps, inst>>

\* main lines 467-492 and GeminiRankingClient.__init__ lines 58-96: the API
\* key is missing (sys.exit(1), or ValueError), or the criteria file is
\* missing, unreadable or not JSON (FileNotFoundError, OSError, ValueError):
\* the process ends with status 1 before the bibliography is parsed and
\* before rank_papers is called.
ConfigError ==
    /\ Stopped
    /\ runs < MaxRuns
    /\ Exit("exit1")
    /\ phase' = "config"
    /\ papers' = <<>>
    /\ paper_items' = <<>>
    /\ resume' = TRUE
    /\ limit' = None
    /\ runs' = runs + 1
    /\ called' = {}
    /\ before' = before \cup called
    /\ outcome' = "none"
    /\ rerun' = FALSE
    /\ file0' = file
    /\ UNCHANGED <<oracle, file, response_text, parsed>>
    /\ UNCHANGED <<notebooklm, sleeps, inst>>

\* client.models.generate_content for record k, with outcome o: one more
\* invocation.
Invoke(k, o) ==
    /\ oracle[k] \in {"any", o}
    /\ called' = called \cup {k}
    /\ ncalls' = ncalls + 1

\* rank_paper lines 213-244, one pass of the retry loop in which the backend
\* call (or the parse, or the final_score check) raises: sleep and go round
\* again, or on the last attempt raise GeminiRankingError, which rank_papers
\* lines 258-265 catch: failed += 1, and the report is written.
CallFails ==
    /\ InLoop
    /\ Invoke(paper_items[idx], "raise")
    /\ IF attempt < DefaultMaxRetries - 1
       THEN /\ attempt' = attempt + 1
            /\ pc' = "rank"
            /\ UNCHANGED <<failed, report, phase, outcome>>
       ELSE /\ attempt' = 0
            /\ outcome' = "exhausted"
            /\ failed' = failed + 1
            /\ report' = DictSet(report, "failed", failed + 1)
            /\ phase' = "failure"
            /\ pc' = "open"
    /\ UNCHANGED <<file, file0, papers, resume, limit, paper_items,
                   idx, results, runs, before, mark, oracle, rerun>>
    /\ UNCHANGED <<response_text, parsed>>
    /\ UNCHANGED <<notebooklm, sleeps, inst>>

\* rank_paper returns a ranking and rank_papers lines 224-250 run: the result
\* is appended, the counters refreshed and the statistics recomputed.  sum()
\* raises TypeError when a score is not a number; rank_papers lines 268-275
\* catch it: failed += 1, and the report is written.
CallAnswers(o) ==
    /\ InLoop
    /\ Invoke(paper_items[idx], o)
    /\ attempt' = 0
    /\ outcome' = "answered"
    /\ LET k == paper_items[idx]
           rs == Append(results, Result(k, Ranking(k, o)))
           rep == AfterAppend(report, rs, failed)
       IN /\ results' = rs
          /\ IF AllNumeric(rs)
             THEN /\ report' = DictSet(rep, "statistics", StatisticsOf(rs))
                  /\ phase' = "success"
                  /\ UNCHANGED failed
             ELSE /\ failed' = failed + 1
                  /\ report' = DictSet(rep, "failed", failed + 1)
                  /\ phase' = "failure"
    /\ pc' = "open"
    /\ UNCHANGED <<file, file0, papers, resume, limit, paper_items,
                   idx, runs, before, mark, oracle, rerun>>
    /\ UNCHANGED <<response_text, parsed>>
    /\ UNCHANGED <<notebooklm, sleeps, inst>>

\* rank_papers lines 279-284: the loop is over, status becomes completed and
\* the report is written once more.
LoopEnds ==
    /\ pc = "loop"
    /\ idx > Len(paper_items)
    /\ report' = DictSet(report, "status", "completed")
    /\ phase' = "final"
    /\ pc' = "open"
    /\ UNCHANGED <<oracle, file, file0, papers, resume, limit, paper_items,
                   idx, attempt, results, failed, runs, called, ncalls,
                   before, outcome, mark, rerun>>
    /\ UNCHANGED <<response_text, parsed>>
    /\ UNCHANGED <<notebooklm, sleeps, inst>>

\* open(output_path, "w"): the file is truncated before anything is written.
OpenFile ==
    /\ pc = "open"
    /\ file' = Torn
    /\ pc' = "dump"
    /\ UNCHANGED <<oracle, file0, phase, papers, resume, limit, paper_items,
                   idx, attempt, results, failed, report, runs, called, ncalls,
                   before, outcome, mark, rerun>>
    /\ UNCHANGED <<response_text, parsed>>
    /\ UNCHANGED <<notebooklm, sleeps, inst>>

\* A dump that leaves the file as the run found it when the record failed.
DumpNotOnFailure ==
    /\ pc = "dump"
    /\ file' = IF phase = "failure" THEN file0 ELSE Stored(report)
    /\ CASE phase \in {"success", "failure"} ->
              /\ pc' = "loop"
              /\ idx' = idx + 1
              /\ ncalls' = 0
              /\ outcome' = "none"
              /\ mark' = [failed |-> failed, n |-> Len(results)]
              /\ UNCHANGED <<attempt, results, failed, report>>
         [] phase = "final" ->
              /\ pc' = "returned"
              /\ UNCHANGED <<idx, ncalls, outcome, mark, attempt, results,
                             failed, report>>
         [] phase = "save" ->
              /\ Exit("done")
              /\ UNCHANGED outcome
    /\ UNCHANGED <<oracle, file0, phase, papers, resume, limit, paper_items,
                   runs, called, before, rerun>>
    /\ UNCHANGED <<response_text, parsed>>
    /\ UNCHANGED <<notebooklm, sleeps, inst>>

\* json.dump(report, f) and the close of the file: the whole report is in the
\* file.  The loop goes on to the next record, rank_papers returns (after the
\* final write), or main ends (after save_report).
Dump ==
    /\ pc = "dump"
    /\ file' = Stored(report)
    /\ CASE phase \in {"success", "failure"} ->
              /\ pc' = "loop"
              /\ idx' = idx + 1
              /\ ncalls' = 0
              /\ outcome' = "none"
              /\ mark' = [failed |-> failed, n |-> Len(results)]
              /\ UNCHANGED <<attempt, results, failed, report>>
         [] phase = "final" ->
              /\ pc' = "returned"
              /\ UNCHANGED <<idx, ncalls, outcome, mark, attempt, results,
                             failed, report>>
         [] phase = "save" ->
              /\ Exit("done")
              /\ UNCHANGED outcome
    /\ UNCHANGED <<oracle, file0, phase, papers, resume, limit, paper_items,
                   runs, called, before, rerun>>
    /\ UNCHANGED <<response_text, parsed>>
    /\ UNCHANGED <<notebooklm, sleeps, inst>>

\* open(output_path, "w") raises OSError (a revoked permission, a full or
\* read-only disk): the file is not touched.  In the try block (the success
\* path) rank_papers lines 268-275 catch it: failed += 1 and the report is
\* written again.  In an except block, in the final write or in save_report
\* nothing in rank_papers catches it: main's "except Exception" ends the
\* process with status 1.
WriteRaises ==
    /\ pc = "open"
    /\ IF phase = "success"
       THEN /\ failed' = failed + 1
            /\ report' = DictSet(report, "failed", failed + 1)
            /\ phase' = "failure"
            /\ pc' = "open"
            /\ UNCHANGED <<idx, attempt, results, ncalls, mark>>
       ELSE /\ Exit("exit1")
            /\ UNCHANGED phase
    /\ UNCHANGED <<oracle, file, file0, papers, resume, limit, paper_items,
                   runs, called, before, outcome, rerun>>
    /\ UNCHANGED <<response_text, parsed>>
    /\ UNCHANGED <<notebooklm, sleeps, inst>>

\* main lines 506-515, after rank_papers returned results: exit(1) when the
\* list is empty; print_top_papers and save_report raise TypeError on a score
\* that is not a number (main's "except Exception": exit(1)); otherwise
\* save_report builds the sorted report and writes it.
MainAfterRank ==
    /\ pc = "returned"
    /\ IF Len(results) = 0 \/ ~AllNumeric(results)
       THEN /\ Exit("exit1")
            /\ phase' = "main"
       ELSE /\ report' = SaveReport(results)
            /\ phase' = "save"
            /\ pc' = "open"
            /\ UNCHANGED <<idx, attempt, results, failed, ncalls, mark>>
    /\ UNCHANGED <<oracle, file, file0, papers, resume, limit, paper_items,
                   runs, called, before, outcome, rerun>>
    /\ UNCHANGED <<response_text, parsed>>
    /\ UNCHANGED <<notebooklm, sleeps, inst>>

\* The process is interrupted (KeyboardInterrupt is no Exception, a kill is
\* no exception at all): its memory is gone, the file stays as it is.
Interrupt ==
    /\ ~Stopped
    /\ Exit("killed")
    /\ phase' = "none"
    /\ paper_items' = <<>>
    /\ papers' = <<>>
    /\ resume' = TRUE
    /\ limit' = None
    /\ file0' = Absent
    /\ called' = {}
    /\ before' = before \cup called
    /\ outcome' = "none"
    /\ rerun' = FALSE
    /\ UNCHANGED <<oracle, file, runs>>
    /\ UNCHANGED <<response_text, parsed>>
    /\ UNCHANGED <<notebooklm, sleeps, inst>>

Next ==
    \/ \E inp \in Inputs, res \in BOOLEAN, lim \in Limits : StartRun(inp, res, lim)
    \/ ConfigError
    \/ CallFails
    \/ \E o \in {"num", "nonnum"} : CallAnswers(o)
    \/ LoopEnds
    \/ OpenFile
    \/ Dump
    \/ WriteRaises
    \/ MainAfterRank
    \/ Interrupt

Spec == Init /\ [][Next]_vars

\* ------------------------------------------------ runs left to themselves
\* The steps of a process that has started: it is never interrupted and always
\* takes its next step; each backend call returns or raises, and a write
\* goes through or raises.
Step ==
    \/ CallFails
    \/ \E o \in {"num", "nonnum"} : CallAnswers(o)
    \/ LoopEnds
    \/ OpenFile
    \/ Dump
    \/ WriteRaises
    \/ MainAfterRank

NextLive ==
    \/ \E inp \in Inputs, res \in BOOLEAN, lim \in Limits : StartRun(inp, res, lim)
    \/ ConfigError
    \/ CallFails
    \/ \E o \in {"num", "nonnum"} : CallAnswers(o)
    \/ LoopEnds
    \/ OpenFile
    \/ Dump
    \/ WriteRaises
    \/ MainAfterRank

SpecLive == Init /\ [][NextLive]_vars /\ WF_vars(Step)

\* ------------------------------------------- interrupted and resumed runs
\* A deterministic backend: every call for a key does the same.
InitCrash ==
    /\ oracle \in [Keys -> Outcomes]
    /\ InitProgram

\* The first run, or the restart after an interruption: resume on, the whole
\* bibliography, no limit.
Restart ==
    /\ pc \in {"idle", "killed"}
    /\ StartRun(AllKeys, TRUE, None)

\* The process is interrupted between two iterations of the loop.
InterruptBetween ==
    /\ pc = "loop"
    /\ Interrupt

NextCrash ==
    \/ Restart
    \/ CallFails
    \/ \E o \in {"num", "nonnum"} : CallAnswers(o)
    \/ LoopEnds
    \/ OpenFile
    \/ Dump
    \/ WriteRaises
    \/ MainAfterRank
    \/ InterruptBetween

SpecCrash == InitCrash /\ [][NextCrash]_vars

\* ------------------------------------- a run on a checkpoint with entries
\* What an entry of an earlier lineage may hold: a score alone, or the score 8
\* with category scores that differ in the first category, in the second, or
\* are missing.
PoolEntries ==
    {[relevance_score |-> Num(v), category_scores |-> <<>>] : v \in {1, 3, 7, 9}}
    \cup
    {[relevance_score |-> Num(8), category_scores |-> cs] :
        cs \in {<<>>,
                [c \in {"direct_lrd_connection"} |-> [score |-> 7]],
                [c \in {"direct_lrd_connection"} |-> [score |-> 9]],
                [c \in {"direct_lrd_connection", "citation_frequency"} |->
                    [score |-> IF c = "direct_lrd_connection" THEN 9 ELSE 4]]}}

\* The entries of such a checkpoint: keys outside the bibliography.
PooledPapers(f) ==
    [i \in DOMAIN f |->
        [bibtex_key |-> NPapers + i,
         relevance_score |-> f[i].relevance_score,
         category_scores |-> f[i].category_scores]]

\* The report an interrupted run left (rank_papers lines 202-209, 237-250).
PooledCheckpoint(ps) ==
    IF Len(ps) = 0 THEN InitialReport(ps, ps, 0)
    ELSE DictSet(InitialReport(ps, ps, 0), "statistics", StatisticsOf(ps))

InitPooled ==
    /\ oracle = [k \in Keys |-> "any"]
    /\ \E n \in 0..MaxLoaded : \E f \in [1..n -> PoolEntries] :
          file = Stored(PooledCheckpoint(PooledPapers(f)))
    /\ InitProcess

\* A run with resume on, on a bibliography of one record.
RunOnPooled ==
    /\ pc = "idle"
    /\ StartRun(SubSeq(AllKeys, 1, 1), TRUE, None)

NextPooled ==
    \/ RunOnPooled
    \/ CallFails
    \/ \E o \in {"num", "nonnum"} : CallAnswers(o)
    \/ LoopEnds
    \/ OpenFile
    \/ Dump
    \/ WriteRaises
    \/ MainAfterRank

SpecPooled == InitPooled /\ [][NextPooled]_vars

\* ------------------------------------------- rank_paper for one record
\* rank_paper is entered (lines 210-213): the prompt is built, attempt = 0.
EnterRankPaper ==
    /\ pc = "idle"
    /\ pc' = "call"
    /\ attempt' = 0
    /\ UNCHANGED <<oracle, file, file0, phase, papers, resume, limit,
                   paper_items, idx, results, failed, report, runs, called,
                   before, ncalls, outcome, mark, rerun, response_text, parsed>>
    /\ UNCHANGED <<notebooklm, sleeps, inst>>

\* Lines 215-221: generate_content is called and raises, or gives a text.
ApiCall(x) ==
    /\ pc = "call"
    /\ ncalls' = ncalls + 1
    /\ response_text' = x
    /\ parsed' = "none"
    /\ pc' = IF x.error # "none" THEN "except" ELSE "parse"
    /\ UNCHANGED <<oracle, file, file0, phase, papers, resume, limit,
                   paper_items, idx, attempt, results, failed, report, runs,
                   called, before, outcome, mark, rerun>>
    /\ UNCHANGED <<notebooklm, sleeps, inst>>

\* Line 222: result = self._parse_response(response_text).
ParseResponse ==
    /\ pc = "parse"
    /\ parsed' = _parse_response(response_text)
    /\ pc' = IF _parse_response(response_text)
                  \in {"JSONDecodeError", "GeminiRankingError"}
             THEN "except" ELSE "validate"
    /\ UNCHANGED <<oracle, file, file0, phase, papers, resume, limit,
                   paper_items, idx, attempt, results, failed, report, runs,
                   called, before, ncalls, outcome, mark, rerun, response_text>>
    /\ UNCHANGED <<notebooklm, sleeps, inst>>

\* Lines 225-228: the result is returned if "final_score" in result, a key
\* test on a dict and a membership test on an array or a string; else
\* GeminiRankingError is raised (inside the try).
Validate ==
    /\ pc = "validate"
    /\ pc' = IF response_text.final_score THEN "return" ELSE "except"
    /\ UNCHANGED <<oracle, file, file0, phase, papers, resume, limit,
                   paper_items, idx, attempt, results, failed, report, runs,
                   called, before, ncalls, outcome, mark, rerun, response_text,
                   parsed>>
    /\ UNCHANGED <<notebooklm, sleeps, inst>>

\* A handler that sleeps before it looks at the attempts that remain.
ExceptSleepingAfterLast ==
    /\ pc = "except"
    /\ sleeps' = Append(sleeps, 2 ^ attempt)
    /\ IF attempt < DefaultMaxRetries - 1
       THEN attempt' = attempt + 1 /\ pc' = "call"
       ELSE pc' = "raise" /\ UNCHANGED attempt
    /\ UNCHANGED <<oracle, file, file0, phase, papers, resume, limit,
                   paper_items, idx, results, failed, report, runs, called,
                   before, ncalls, outcome, mark, rerun, response_text, parsed>>
    /\ UNCHANGED <<notebooklm, inst>>

\* Lines 230-244: "except json.JSONDecodeError" and "except Exception" do the
\* same whatever was raised: sleep 2**attempt seconds and go round again
\* while attempt < max_retries - 1, else raise GeminiRankingError.
Except ==
    /\ pc = "except"
    /\ IF attempt < DefaultMaxRetries - 1
       THEN /\ sleeps' = Append(sleeps, 2 ^ attempt)
            /\ attempt' = attempt + 1
            /\ pc' = "call"
       ELSE pc' = "raise" /\ UNCHANGED <<attempt, sleeps>>
    /\ UNCHANGED <<oracle, file, file0, phase, papers, resume, limit,
                   paper_items, idx, results, failed, report, runs, called,
                   before, ncalls, outcome, mark, rerun, response_text, parsed>>
    /\ UNCHANGED <<notebooklm, inst>>

NextClient ==
    \/ EnterRankPaper
    \/ \E x \in ApiErrors \cup ResponseTexts : ApiCall(x)
    \/ ParseResponse
    \/ Validate
    \/ Except

SpecClient == Init /\ [][NextClient]_vars

\* ------------------------------------------ generate_notebooklm_list.py
\* select_papers_with_eprint lines 117-137: the papers are taken in the order
\* of the report; one whose key is in eprint_map is selected while fewer than
\* max_count are; one without an eprint and a score >= 7 is noted as skipped.
RECURSIVE select_papers_with_eprint(_, _, _)
select_papers_with_eprint(ps, em, mc) ==
    IF Len(ps) = 0 THEN [selected |-> <<>>, skipped_high_quality |-> <<>>]
    ELSE LET sofar == select_papers_with_eprint(SubSeq(ps, 1, Len(ps) - 1),
                                                 em, mc)
             paper == ps[Len(ps)]
             bibtex_key == paper.bibtex_key
             relevance_score == paper.relevance_score.val
         IN IF bibtex_key \in DOMAIN em
            THEN IF Len(sofar.selected) < mc
                 THEN [sofar EXCEPT !.selected =
                          Append(@, <<bibtex_key, em[bibtex_key],
                                      relevance_score>>)]
                 ELSE sofar
            ELSE IF relevance_score >= 7
                 THEN [sofar EXCEPT !.skipped_high_quality =
                          Append(@, <<bibtex_key, relevance_score>>)]
                 ELSE sofar

\* A report with up to MaxListed entries, in any order, is in the file: an
\* in-progress checkpoint, or the report paper_ranker.py leaves (its main
\* never sorts).
InitSelect ==
    /\ oracle = [k \in Keys |-> "any"]
    /\ \E n \in 0..MaxListed : \E f \in [1..n -> PoolEntries] :
          file = Stored(PooledCheckpoint(PooledPapers(f)))
    /\ InitProcess

\* generate_notebooklm_list lines 167-190: the report is loaded, the eprint
\* ids are read from the bibliography, and the papers are selected.
SelectPapers(keys, mc) ==
    /\ pc = "idle"
    /\ LET em == [k \in keys |-> k]
       IN /\ eprint_map' = em
          /\ selected' = select_papers_with_eprint(file.doc["papers"], em, mc)
    /\ max_count' = mc
    /\ pc' = "selected"
    /\ UNCHANGED <<oracle, file, file0, phase, papers, resume, limit,
                   paper_items, idx, attempt, results, failed, report, runs,
                   called, before, ncalls, outcome, mark, rerun, response_text,
                   parsed, sleeps, inst>>

NextSelect ==
    \E keys \in SUBSET (NPapers + 1 .. NPapers + MaxListed), mc \in 0..MaxCount :
        SelectPapers(keys, mc)

SpecSelect == InitSelect /\ [][NextSelect]_vars

\* ------------------------------------------- two processes, one checkpoint
\* Every variable but file and inst.
alone == <<oracle, file0, pc, phase, papers, resume, limit, paper_items, idx,
           attempt, results, failed, report, runs, called, before, ncalls,
           outcome, mark, rerun, response_text, parsed, notebooklm, sleeps>>

\* main lines 494-504 and rank_papers lines 163-212 in process i, on the whole
\* bibliography with resume on and no limit: the checkpoint is loaded as the
\* file is now, and what it holds is skipped.
StartInstance(i) ==
    /\ inst[i].pc = "idle"
    /\ LET existing_report == load_existing_report(file)
           existing_papers ==
               IF Truthy(existing_report) /\ "papers" \in DOMAIN existing_report
               THEN ExistingPapers(existing_report["papers"])
               ELSE <<>>
           items == ApplyLimit(Remaining(AllKeys, KeysOf(existing_papers), TRUE),
                               None)
           f == IF Truthy(existing_report)
                THEN DictGet(existing_report, "failed", 0) ELSE 0
       IN inst' = [inst EXCEPT ![i] =
              [@ EXCEPT !.pc = IF Len(items) = 0 THEN "returned" ELSE "loop",
                        !.paper_items = items,
                        !.idx = 1,
                        !.results = existing_papers,
                        !.failed = IF Len(items) = 0 THEN 0 ELSE f,
                        !.report = IF Len(items) = 0 THEN NoReport
                                   ELSE InitialReport(AllKeys, existing_papers, f)]]
    /\ UNCHANGED <<file, alone>>

\* rank_papers lines 214-277 in process i up to the open of the file: the
\* call of rank_paper for the record in hand, with its retries, raises or
\* returns a ranking; the result is appended and the statistics recomputed,
\* or failed is raised by one.
RankOne(i, o) ==
    /\ inst[i].pc = "loop"
    /\ inst[i].idx <= Len(inst[i].paper_items)
    /\ LET me == inst[i]
           k == me.paper_items[me.idx]
           rs == Append(me.results, Result(k, Ranking(k, o)))
           rp == AfterAppend(me.report, rs, me.failed)
       IN inst' = [inst EXCEPT ![i] =
              IF o = "raise"
              THEN [me EXCEPT !.failed = me.failed + 1,
                              !.report = DictSet(me.report, "failed",
                                                 me.failed + 1),
                              !.phase = "failure",
                              !.pc = "open"]
              ELSE IF AllNumeric(rs)
              THEN [me EXCEPT !.results = rs,
                              !.scored = me.scored \cup {k},
                              !.report = DictSet(rp, "statistics",
                                                 StatisticsOf(rs)),
                              !.phase = "success",
                              !.pc = "open"]
              ELSE [me EXCEPT !.results = rs,
                              !.scored = me.scored \cup {k},
                              !.failed = me.failed + 1,
                              !.report = DictSet(rp, "failed", me.failed + 1),
                              !.phase = "failure",
                              !.pc = "open"]]
    /\ UNCHANGED <<file, alone>>

\* rank_papers lines 279-284 in process i.
LoopEndsOf(i) ==
    /\ inst[i].pc = "loop"
    /\ inst[i].idx > Len(inst[i].paper_items)
    /\ inst' = [inst EXCEPT ![i] =
           [@ EXCEPT !.report = DictSet(@, "status", "completed"),
                     !.phase = "final",
                     !.pc = "open"]]
    /\ UNCHANGED <<file, alone>>

\* open(output_path, "w") in process i: the file is truncated.
OpenFileOf(i) ==
    /\ inst[i].pc = "open"
    /\ file' = Torn
    /\ inst' = [inst EXCEPT ![i] = [@ EXCEPT !.pc = "dump"]]
    /\ UNCHANGED alone

\* A dump that keeps the entries the other process has and this one lacks.
DumpMerging(i) ==
    /\ inst[i].pc = "dump"
    /\ LET me == inst[i]
           other == CHOOSE j \in Instances : j # i
           more == SelectSeq(inst[other].results,
                             LAMBDA p : p.bibtex_key \notin KeysOf(me.results))
       IN /\ file' = Stored(IF "papers" \in DOMAIN me.report
                            THEN DictSet(me.report, "papers",
                                         me.report["papers"] \o more)
                            ELSE me.report)
          /\ inst' = [inst EXCEPT ![i] =
                 CASE me.phase \in {"success", "failure"} ->
                          [me EXCEPT !.pc = "loop", !.idx = me.idx + 1,
                                     !.persisted = KeysOf(me.results)
                                                       \cap me.scored]
                   [] me.phase = "final" -> [me EXCEPT !.pc = "returned"]
                   [] OTHER -> [me EXCEPT !.pc = "done"]]
    /\ UNCHANGED alone

\* json.dump(report, f) and the close of the file in process i: the file
\* holds the report of process i and nothing else.
DumpOf(i) ==
    /\ inst[i].pc = "dump"
    /\ LET me == inst[i]
       IN /\ file' = Stored(me.report)
          /\ inst' = [inst EXCEPT ![i] =
                 CASE me.phase \in {"success", "failure"} ->
                          [me EXCEPT !.pc = "loop", !.idx = me.idx + 1,
                                     !.persisted = KeysOf(me.results)
                                                       \cap me.scored]
                   [] me.phase = "final" -> [me EXCEPT !.pc = "returned"]
                   [] OTHER -> [me EXCEPT !.pc = "done"]]
    /\ UNCHANGED alone

\* main lines 506-515 in process i.
MainOf(i) ==
    /\ inst[i].pc = "returned"
    /\ LET me == inst[i]
       IN inst' = [inst EXCEPT ![i] =
              IF Len(me.results) = 0 \/ ~AllNumeric(me.results)
              THEN [me EXCEPT !.pc = "exit1"]
              ELSE [me EXCEPT !.report = SaveReport(me.results),
                              !.phase = "save",
                              !.pc = "open"]]
    /\ UNCHANGED <<file, alone>>

NextTwo ==
    \E i \in Instances :
        \/ StartInstance(i)
        \/ \E o \in Outcomes : RankOne(i, o)
        \/ LoopEndsOf(i)
        \/ OpenFileOf(i)
        \/ DumpOf(i)
        \/ MainOf(i)

SpecTwo == Init /\ [][NextTwo]_vars

\* ------------------------------------------------------------- properties
\* What the current run loaded from the checkpoint (nothing without resume).
LoadedPapers ==
    IF resume /\ file0.state = "report" /\ "papers" \in DOMAIN file0.doc
    THEN file0.doc["papers"] ELSE <<>>
LoadedKeys == KeysOf(LoadedPapers)
\* The input records with no entry in the loaded checkpoint, in source order.
Unscored == SelectSeq(papers, LAMBDA k : k \notin LoadedKeys)
IsPrefix(s, t) == Len(s) <= Len(t) /\ s = SubSeq(t, 1, Len(s))
SetOf(seq) == {seq[i] : i \in 1..Len(seq)}
\* A run has started and nothing remained for it to process.
NothingRemains == runs > 0 /\ pc # "killed" /\ Len(paper_items) = 0
\* The keys a deterministic backend answers for.
Answered == {k \in Keys : oracle[k] # "raise"}

\* C1: in every report in the checkpoint file, whatever runs wrote it (resume
\* on or off), no two entries of papers have the same bibtex_key.
C1_NoDuplicateKeys ==
    file.state = "report" =>
        \A i, j \in 1..Len(file.doc["papers"]) :
            file.doc["papers"][i].bibtex_key = file.doc["papers"][j].bibtex_key
                => i = j

\* C1 witness: a resumed run has written a report that holds the entries it
\* loaded and at least one more.
C1_Witness ==
    /\ file.state = "report"
    /\ Len(LoadedPapers) >= 1
    /\ Len(file.doc["papers"]) > Len(LoadedPapers)

\* C2: in every report in the checkpoint file, successfully_scored is the
\* number of entries of papers: after a success write, after a failure write
\* that follows the append, after the final write and after save_report.
C2_SuccessCountIsLength ==
    file.state = "report" =>
        file.doc["successfully_scored"] = Len(file.doc["papers"])

\* C2 witness: the first record of a first run was appended and then counted
\* as failed (the statistics raised, or the success write did), and the report
\* of the failure path is in the file.
C2_Witness ==
    /\ pc = "loop"
    /\ phase = "failure"
    /\ idx = 2
    /\ file0.state = "absent"
    /\ file.state = "report"
    /\ Len(file.doc["papers"]) = 1
    /\ file.doc["failed"] = 1

\* C3: in a run with resume on, the backend is never invoked for a key with an
\* entry in the loaded checkpoint, and the records processed are the input
\* records with no entry there, in source order: all of them without a limit,
\* a prefix of them with one.
C3_ResumeSkipsLoaded ==
    (runs > 0 /\ resume) =>
        /\ called \cap LoadedKeys = {}
        /\ IsPrefix(paper_items, Unscored)
        /\ (limit = None => paper_items = Unscored)

\* C3 witness: a resumed run skipped a record of its input that the checkpoint
\* holds and invoked the backend for another.
C3_Witness ==
    /\ resume
    /\ SetOf(papers) \cap LoadedKeys # {}
    /\ called # {}

C5_WriteAllOrNothing == Stopped => file.state # "torn"

C7_RetryExhaustion ==
    /\ (outcome = "exhausted" /\ pc \in {"open", "dump"}) =>
          /\ ncalls = DefaultMaxRetries
          /\ failed = mark.failed + 1
          /\ Len(results) = mark.n
    /\ ~(outcome = "exhausted" /\ pc = "exit1")

\* C8: a failure while a record is processed, the failure of the write that
\* records it included, never ends the run.
C8_FailureNeverEndsRun == ~(pc = "exit1" /\ phase = "failure")

\* C9: a limit L >= 0 caps the new work: the run processes exactly the first
\* min(L, R) of the R records that remain after the resume filter.
C9_LimitCapsNewWork ==
    (runs > 0 /\ pc # "killed" /\ limit # None) =>
        /\ paper_items = SubSeq(Unscored, 1, Min(limit, Len(Unscored)))
        /\ Cardinality(called) <= limit

WrittenThisRun ==
    /\ file.state = "report"
    /\ \/ pc \in {"loop", "rank", "open"} /\ idx > 1
       \/ pc = "returned" /\ phase = "final"
       \/ pc = "done"

\* C11: every report the current run wrote, incremental, final or finalized
\* by save_report, has total_papers equal to the size of the run's whole
\* input.
C11_TotalIsInputSize ==
    WrittenThisRun => file.doc["total_papers"] = Len(papers)

\* C12: when a record's processing is over and the loop is at the next record
\* (or past the last), the file holds the whole in-memory report: the same
\* papers, successfully_scored and failed; so the report is written before
\* the backend is invoked for the next record.
C12_WrittenBeforeNextCall ==
    (pc \in {"loop", "rank"} /\ idx > 1) =>
        /\ file = Stored(report)
        /\ file.doc["papers"] = results
        /\ file.doc["successfully_scored"] = Len(results)
        /\ file.doc["failed"] = failed

\* C12 witness: the first record failed, its report is in the file, and the
\* backend has been invoked for the second record.
C12_Witness ==
    /\ pc = "rank"
    /\ idx = 2
    /\ ncalls >= 1
    /\ file.state = "report"
    /\ file.doc["failed"] = mark.failed
    /\ mark.failed >= 1

\* C13: the report about to be written for a record that failed has the
\* papers and successfully_scored the report had before the record was
\* attempted, and failed larger by exactly one: the failed record has no
\* entry.
C13_FailureLeavesRecords ==
    (phase = "failure" /\ pc = "dump") =>
        /\ Len(report["papers"]) = mark.n
        /\ report["successfully_scored"] = mark.n
        /\ report["failed"] = mark.failed + 1

\* C14: in the final report of a lineage of runs on the same input with
\* resume on, failed is the number of records for which the backend was
\* invoked, in any run of the lineage, and that have no entry in papers.
C14_FailedCountsUnrecovered ==
    (pc = "returned" /\ phase = "final") =>
        file.doc["failed"] =
            Cardinality((before \cup called) \ KeysOf(file.doc["papers"]))

\* C16: the report save_report leaves in the file has status completed.
C16_FinalizedIsCompleted ==
    (pc = "done" /\ file.state = "report") =>
        DictGet(file.doc, "status", "missing") = "completed"

\* C18: every report in the file with entries (all with a numeric score)
\* carries the statistics of exactly those entries.
C18_StatisticsOfSameRecords ==
    (file.state = "report" /\ Len(file.doc["papers"]) > 0
        /\ AllNumeric(file.doc["papers"])) =>
        /\ "statistics" \in DOMAIN file.doc
        /\ file.doc["statistics"] = StatisticsOf(file.doc["papers"])

\* The keys of the claimed order: the score, then the category scores.
DescKey(p) ==
    <<p.relevance_score.val>> \o
    [i \in 1..5 |-> get_category_score(p, Categories[i])]
\* No entry comes after one with a lower key.
Descending(seq) ==
    \A i, j \in 1..Len(seq) :
        i < j => ~LexLess(DescKey(seq[i]), DescKey(seq[j]))

\* C15: the papers of save_report's report are the results in descending
\* lexicographic order of (score, direct_lrd_connection, citation_frequency,
\* foundational_value, methodological_innovation, evolutionary_context): a
\* higher score comes first, and of two entries equal on all earlier keys the
\* one with the higher next key comes first.
C15_SortedDescending ==
    /\ (phase = "save" /\ pc \in {"open", "dump"}) =>
          /\ Descending(report["papers"])
          /\ Len(report["papers"]) = Len(results)
          /\ SetOf(report["papers"]) = SetOf(results)
    /\ (pc = "done" /\ file.state = "report") => Descending(file.doc["papers"])

\* C15 witness: results holds two entries tied at 8 with first category
\* scores 7 and then 9, and an entry scored 5; save_report put the 9 first.
C15_Witness ==
    /\ phase = "save"
    /\ pc = "dump"
    /\ Len(results) = 3
    /\ DescKey(results[1]) = <<8, 7, 0, 0, 0, 0>>
    /\ DescKey(results[2]) = <<8, 9, 0, 0, 0, 0>>
    /\ results[3].relevance_score = Num(5)
    /\ report["papers"] = <<results[2], results[1], results[3]>>

\* m is the element at zero-based index N div 2 of the N values sorted
\* ascending: at most N div 2 values are below it, more than N div 2 are not
\* above it.
IsUpperMedian(m, vals) ==
    /\ \E i \in 1..Len(vals) : vals[i] = m
    /\ Cardinality({i \in 1..Len(vals) : vals[i] < m}) <= Len(vals) \div 2
    /\ Cardinality({i \in 1..Len(vals) : vals[i] <= m}) >= Len(vals) \div 2 + 1
ScoresOf(seq) == [i \in 1..Len(seq) |-> seq[i].relevance_score.val]

\* C17: median_score, in the statistics computed after an append and in those
\* of save_report, is the element at zero-based index N div 2 of the N scores
\* sorted ascending (the upper middle value for an even N).
C17_MedianIsUpperMiddle ==
    (phase \in {"success", "save"} /\ pc \in {"open", "dump"}) =>
        IsUpperMedian(report["statistics"].median_score,
                      ScoresOf(report["papers"]))

\* C17 witness: the scores 1, 3, 7 were loaded, 5 was appended, and the
\* statistics computed after the append have median 5.
C17_Witness ==
    /\ phase = "success"
    /\ pc = "dump"
    /\ ScoresOf(results) = <<1, 3, 7, 5>>
    /\ report["statistics"].median_score = 5

\* The first strategy that succeeds, in the order direct, labeled fence, any
\* fence, braces; "error" when none does.
FirstSuccess(t) ==
    IF t.direct = "ok" THEN "direct"
    ELSE IF t.labeled = "ok" THEN "json_fence"
    ELSE IF t.fenced = "ok" THEN "any_fence"
    ELSE IF t.braces = "ok" THEN "braces"
    ELSE "error"

\* C19: _parse_response gives the result of the first strategy that succeeds
\* among the direct parse, the block labeled json, any fenced block and the
\* text between the first and the last brace, and raises only when all four
\* fail.
C19_FallbackChain ==
    parsed # "none" =>
        IF FirstSuccess(response_text) = "error"
        THEN parsed \in {"JSONDecodeError", "GeminiRankingError"}
        ELSE parsed = FirstSuccess(response_text)

\* C20: after an API call raised a permanent error, the backend is not
\* invoked again for the record.
C20_PermanentNotRetried ==
    response_text.error = "permanent" => pc # "call"

\* C21: a run that ends on a configuration error has invoked the backend for
\* no record and has left the checkpoint file as it found it.
C21_ConfigErrorBeforeWork ==
    (pc = "exit1" /\ phase = "config") =>
        /\ called = {}
        /\ ncalls = 0
        /\ file = file0

\* C21 witness: a run ended on a configuration error with the checkpoint of
\* an earlier run, entries included, still in the file.
C21_Witness ==
    /\ pc = "exit1"
    /\ phase = "config"
    /\ file.state = "report"
    /\ Len(file.doc["papers"]) >= 1

\* C22: in a run with resume off every input record is to be processed (all
\* of them without a limit, a prefix with one), the loop starts with results
\* empty and failed = 0, every entry of results was scored in this run, and
\* so was every entry of a report the run wrote.
C22_NoResumeStartsAfresh ==
    (runs > 0 /\ ~resume) =>
        /\ IsPrefix(paper_items, papers)
        /\ (limit = None => paper_items = papers)
        /\ ((pc = "loop" /\ idx = 1) => (results = <<>> /\ failed = 0))
        /\ KeysOf(results) \subseteq called
        /\ (WrittenThisRun => KeysOf(file.doc["papers"]) \subseteq called)

\* C22 witness: a run with resume off found a checkpoint with entries and
\* wrote a report without one of them.
C22_Witness ==
    /\ ~resume
    /\ WrittenThisRun
    /\ file0.state = "report"
    /\ ~(KeysOf(file0.doc["papers"]) \subseteq KeysOf(file.doc["papers"]))

\* The papers of the report in the file that have an eprint.
WithEprint ==
    SelectSeq(file.doc["papers"], LAMBDA p : p.bibtex_key \in DOMAIN eprint_map)

\* C23: the list select_papers_with_eprint returns holds no more than
\* max_count papers, as many as max_count allows of those with an eprint,
\* and no paper with an eprint that is left out has a higher score than one
\* that is in.
C23_SelectsTopByScore ==
    pc = "selected" =>
        /\ Len(selected.selected) = Min(max_count, Len(WithEprint))
        /\ \A i \in 1..Len(selected.selected) : \A j \in 1..Len(WithEprint) :
              (\A h \in 1..Len(selected.selected) :
                    selected.selected[h][1] # WithEprint[j].bibtex_key)
                  => selected.selected[i][3] >= WithEprint[j].relevance_score.val

\* C24: the wait after the k-th failed attempt (from 0) is 2^k seconds; a wait
\* happens only between two attempts, so a call that has returned or raised
\* has waited once less than it invoked the backend; a call that exhausted
\* its attempts has waited 2^(max_retries - 1) - 1 seconds in all.
C24_Backoff ==
    /\ Len(sleeps) = attempt
    /\ \A k \in 1..Len(sleeps) : sleeps[k] = 2 ^ (k - 1)
    /\ (pc \in {"return", "raise"} => Len(sleeps) = ncalls - 1)
    /\ (pc = "raise" => SumSeq(sleeps) = 2 ^ (DefaultMaxRetries - 1) - 1)

\* C24 witness: every attempt failed and the call raised after two waits.
C24_Witness ==
    pc = "raise" /\ ncalls = DefaultMaxRetries /\ Len(sleeps) = ncalls - 1

\* The status of the report in the file f; "none" when f holds no whole
\* report or the report has no status.
StatusIn(f) ==
    IF f.state = "report" /\ "status" \in DOMAIN f.doc THEN f.doc["status"]
    ELSE "none"

\* The loop of rank_papers has begun and has records left or one in hand.
Iterating ==
    /\ pc \in {"loop", "rank", "open", "dump"}
    /\ phase \notin {"final", "save"}
    /\ idx <= Len(paper_items)

\* A step that puts a whole report in the file.
Writes == file' # file /\ file'.state = "report"

\* C25: a report written while records are being iterated has status
\* in_progress; a report with status completed is written only by the write
\* that follows the last iteration; a run that wrote a report and is
\* interrupted before the loop finishes leaves a checkpoint with status
\* in_progress.
C25_StatusLifecycle ==
    [][/\ (Writes /\ Iterating) => StatusIn(file') = "in_progress"
       /\ (Writes /\ StatusIn(file') = "completed") => phase = "final"
       /\ (pc' = "killed" /\ Iterating /\ idx > 1)
              => StatusIn(file') = "in_progress"]_vars

\* rank_papers is running or has returned to main.
InRankPapers == pc \in {"loop", "rank", "open", "dump", "returned"}
\* The entries the current run appended to those it loaded.
NewEntries == SubSeq(results, Len(LoadedPapers) + 1, Len(results))
\* The place of the record k in the input.
PlaceOf(k) == CHOOSE j \in 1..Len(papers) : papers[j] = k

\* C26: the backend has been invoked only for records up to the one in hand,
\* never for a later one, and records is the entries loaded from the
\* checkpoint followed by the entries of this run, which are records of the
\* input up to the one in hand, in the order of the input.
C26_OneAtATimeInOrder ==
    InRankPapers =>
        /\ called \subseteq
              {paper_items[j] : j \in 1..Min(idx, Len(paper_items))}
        /\ IsPrefix(LoadedPapers, results)
        /\ \A i \in 1..Len(NewEntries) :
              /\ NewEntries[i].bibtex_key \in called
              /\ NewEntries[i].bibtex_key \in SetOf(papers)
        /\ \A i, j \in 1..Len(NewEntries) :
              i < j => PlaceOf(NewEntries[i].bibtex_key)
                           < PlaceOf(NewEntries[j].bibtex_key)

\* C26 witness: a resumed run has put a new entry after a loaded one whose
\* record comes later in the input.
C26_Witness ==
    /\ pc = "loop"
    /\ Len(LoadedPapers) >= 1
    /\ Len(NewEntries) >= 1
    /\ LoadedPapers[1].bibtex_key \in SetOf(papers)
    /\ PlaceOf(NewEntries[1].bibtex_key) < PlaceOf(LoadedPapers[1].bibtex_key)

\* C27: for one record the backend is invoked at most max_retries times,
\* whatever mix of API errors, unparseable responses and responses without
\* final_score it meets; rank_paper raises (GeminiRankingError) only when the
\* attempts are used up; and what rank_paper returns is an object with the
\* key final_score.
C27_MalformedRetried ==
    /\ ncalls <= DefaultMaxRetries
    /\ (pc = "call" => ncalls = attempt)
    /\ (pc = "raise" => ncalls = DefaultMaxRetries)
    /\ (pc = "return" => (response_text.object /\ response_text.final_score))

\* C28: with two processes on one checkpoint, a whole report in the file is
\* the view of one process alone, its results as far as it had them or its
\* finalized list, never a merge of the two: so what the other process wrote
\* and this one did not load is gone.
C28_FileIsOneView ==
    file.state = "report" =>
        \E i \in Instances :
            /\ inst[i].pc # "idle"
            /\ "papers" \in DOMAIN file.doc
            /\ \/ IsPrefix(file.doc["papers"], inst[i].results)
               \/ /\ Len(inst[i].results) > 0
                  /\ AllNumeric(inst[i].results)
                  /\ file.doc["papers"] = SaveReport(inst[i].results)["papers"]

\* C28 witness: the checkpoint lacks a record that one process scored and
\* wrote, and some record was scored by both processes.
C28_Witness ==
    /\ file.state = "report"
    /\ \E i \in Instances :
          \E k \in inst[i].persisted : k \notin KeysOf(file.doc["papers"])
    /\ inst["A"].scored \cap inst["B"].scored # {}

\* C29: the report about to be written after a record was processed has, next
\* to the one written before it in this run (or the one the run began
\* with), neither counter lower, exactly one of successfully_scored and
\* failed higher, by one, and at most one more entry in papers.
C29_MonotonicReport ==
    (pc = "dump" /\ phase \in {"success", "failure"}) =>
        LET ds == report["successfully_scored"] - mark.n
            df == report["failed"] - mark.failed
        IN /\ ds >= 0
           /\ df >= 0
           /\ ds + df = 1
           /\ Len(report["papers"]) - mark.n \in {0, 1}

\* The six keys of an entry with 0 where it has no score for a category.
ZeroKey(p) ==
    <<p.relevance_score.val>> \o
    [i \in 1..5 |->
        IF Categories[i] \in DOMAIN p.category_scores
        THEN p.category_scores[Categories[i]].score ELSE 0]
\* How often the entry p is in seq, and where the entry with p's key is.
TimesIn(seq, p) == Cardinality({n \in 1..Len(seq) : seq[n] = p})
PlaceIn(seq, p) == CHOOSE n \in 1..Len(seq) : seq[n].bibtex_key = p.bibtex_key

\* C30: the papers of save_report's report are a permutation of results; two
\* results equal on all six keys are in the order they had in results; and the
\* order is descending on the keys with 0 for a category score that is
\* missing.
C30_StableLossless ==
    (phase = "save" /\ pc \in {"open", "dump"}) =>
        LET out == report["papers"]
        IN /\ Len(out) = Len(results)
           /\ \A i \in 1..Len(results) :
                 TimesIn(out, results[i]) = TimesIn(results, results[i])
           /\ \A i, j \in 1..Len(results) :
                 (i < j /\ ZeroKey(results[i]) = ZeroKey(results[j]))
                     => PlaceIn(out, results[i]) < PlaceIn(out, results[j])
           /\ \A i, j \in 1..Len(out) :
                 i < j => ~LexLess(ZeroKey(out[i]), ZeroKey(out[j]))

\* C30 witness: results holds two entries scored 8 without category scores
\* and then one scored 8 with 7 in the first category; save_report put the
\* last first and kept the other two in their order.
C30_Witness ==
    /\ phase = "save"
    /\ pc = "dump"
    /\ \E i, j, h \in 1..Len(results) :
          /\ i < j /\ j < h
          /\ results[i].category_scores = <<>>
          /\ ZeroKey(results[i]) = <<8, 0, 0, 0, 0, 0>>
          /\ ZeroKey(results[j]) = ZeroKey(results[i])
          /\ ZeroKey(results[h]) = <<8, 7, 0, 0, 0, 0>>
          /\ PlaceIn(report["papers"], results[h])
                 < PlaceIn(report["papers"], results[i])
          /\ PlaceIn(report["papers"], results[i])
                 < PlaceIn(report["papers"], results[j])

\* C31: a record for which rank_paper returned a ranking, on the first attempt
\* or on a retry, took at most max_retries invocations, and the report about
\* to be written for it counts it as one success, with failed as it was
\* before the record.
C31_SuccessOnRetry ==
    (pc \in {"open", "dump"} /\ outcome = "answered"
        /\ phase \in {"success", "failure"}) =>
        /\ ncalls \in 1..DefaultMaxRetries
        /\ report["successfully_scored"] = mark.n + 1
        /\ report["failed"] = mark.failed

\* C32: a run with resume on that found a file it could not parse has in hand
\* the records of the input from the first on (all of them without a limit),
\* begins with no results and failed = 0, holds only entries of records it
\* invoked the backend for, and once it has written, the file holds a whole
\* report with entries of this run alone.
C32_UnparseableCheckpoint ==
    (InRankPapers /\ resume /\ file0.state = "torn") =>
        /\ IsPrefix(paper_items, papers)
        /\ (limit \in {None, 0} => paper_items = papers)
        /\ (limit \notin {None, 0}
               => Len(paper_items) = Min(limit, Len(papers)))
        /\ ((pc = "loop" /\ idx = 1) => (results = <<>> /\ failed = 0))
        /\ KeysOf(results) \subseteq called
        /\ (WrittenThisRun => KeysOf(file.doc["papers"]) \subseteq called)

\* C32 witness: a resumed run that found a cut-off file has scored its first
\* record and written a report with that one entry.
C32_Witness ==
    /\ resume
    /\ file0.state = "torn"
    /\ pc = "loop"
    /\ idx = 2
    /\ file.state = "report"
    /\ Len(file.doc["papers"]) = 1

\* The failed count of the checkpoint the current run loaded (0 without one,
\* or when the report has no such field).
LoadedFailed ==
    IF resume /\ file0.state = "report" THEN DictGet(file0.doc, "failed", 0)
    ELSE 0

\* C33: with a deterministic backend and resume on, a run begins its loop
\* with failed as the checkpoint has it (0 if it has none); at the final
\* write failed is that number plus one for each record of this run that
\* failed, so at least one for each record the backend does not score and at
\* most one for each record in hand; and every record that failed in an
\* earlier run has been attempted again.
C33_FailedCarriedOver ==
    /\ (pc = "loop" /\ idx = 1) => failed = LoadedFailed
    /\ (pc = "returned" /\ phase = "final") =>
          /\ failed - LoadedFailed
                >= Cardinality({k \in called : oracle[k] # "num"})
          /\ failed - LoadedFailed <= Len(paper_items)
          /\ \A k \in before : oracle[k] # "num" => k \in called

\* C34: the final report of rank_papers in a run that loaded no checkpoint
\* and had no limit has successfully_scored + failed = total_papers.
C34_EveryRecordAccounted ==
    (pc = "returned" /\ phase = "final" /\ limit = None
        /\ (~resume \/ file0.state # "report")) =>
        file.doc["successfully_scored"] + file.doc["failed"]
            = file.doc["total_papers"]

\* C35: the final report of rank_papers in a run whose limit was smaller than
\* the number of records that remained has status completed and
\* successfully_scored + failed below total_papers.
C35_CompletedUnderLimit ==
    (pc = "returned" /\ phase = "final" /\ limit \notin {None, 0}
        /\ limit < Len(Remaining(papers, LoadedKeys, resume))) =>
        /\ file.doc["status"] = "completed"
        /\ file.doc["successfully_scored"] + file.doc["failed"]
              < file.doc["total_papers"]

\* C36: in a run with resume on, the entries of the loaded checkpoint, those
\* of records outside the input included, are the first of results as they
\* were loaded; every report the run wrote holds each of them unchanged and
\* counts them in successfully_scored, and has total_papers equal to the size
\* of the input.
C36_StaleEntriesKept ==
    (runs > 0 /\ resume) =>
        /\ (InRankPapers => IsPrefix(LoadedPapers, results))
        /\ WrittenThisRun =>
              /\ \A i \in 1..Len(LoadedPapers) :
                    TimesIn(file.doc["papers"], LoadedPapers[i]) = 1
              /\ file.doc["successfully_scored"] = Len(file.doc["papers"])
              /\ file.doc["total_papers"] = Len(papers)

\* C37: for each record the backend is invoked at most max_retries times, the
\* loop never goes past the records in hand, and a run that has entered its
\* loop comes to its final write, of a report with status completed.
C37_Termination ==
    /\ [](ncalls <= DefaultMaxRetries /\ idx <= Len(paper_items) + 1)
    /\ (pc = "loop") ~>
          (pc = "open" /\ phase = "final"
              /\ DictGet(report, "status", "none") = "completed")

====
